---- MODULE Spec2Model ----
(***************************************************************************)
(* Google Docs tab -> Drive PDF exporter (src/pdfs-from-g-doc-tabs.js).    *)
(*                                                                         *)
(* The model follows the script statement by statement:                    *)
(*   - the Doc is a forest of tabs (id, title, content, parent);           *)
(*   - Drive is a table of items; an item keeps its parents when it is     *)
(*     trashed (setTrashed only sets a flag: getFileById, getFiles,        *)
(*     getFilesByName and getFoldersByName still return it); an item the   *)
(*     user deleted for good makes getFileById throw;                      *)
(*   - Script Properties hold the lock, the JSON state, the hash_<id>      *)
(*     fingerprints and lastDocumentCheck;                                 *)
(*   - a run of exportUpdatedTabsToPDF is a process that advances through  *)
(*     the script one platform call at a time: every write to Drive or to  *)
(*     the Script Properties, every fetch and every listing a later write  *)
(*     depends on is a step, so that another invocation, a thrown error,   *)
(*     the platform's kill or an edit of the Doc can come between any two  *)
(*     of them. The waits (Utilities.sleep) belong to the step of the call *)
(*     they follow; reads belong to the step that uses what they return.   *)
(***************************************************************************)
EXTENDS Integers, Sequences, FiniteSets, TLC

\* ------------------------------------------------------------------ bounds
MaxEvents == 1        \* events over a behaviour: edits of the Doc, things the user
                      \* does by hand in Drive, renderer failures, errors, kills
MaxTicks == 3         \* clock ticks over a behaviour
ManyEvents == 3       \* events over a behaviour of the runs that are retried or stopped
MaxOld == 2           \* files already in the folder an export goes to

\* ------------------------------------------------------- program constants
MAX_RETRIES == 3
INITIAL_BACKOFF == 1500
DELAY_BETWEEN_EXPORTS == 2500
LOCK_TIMEOUT_MS == 9 * 60 * 1000
\* "Safe buffer for 6 min runtime": the platform stops a run after 6 minutes
MAX_RUNTIME_MS == 6 * 60 * 1000
\* a tick of the clock is 3 minutes; the waits of the script add their own
TickMs == 3 * 60 * 1000

\* JS null (a falsy id / an absent property)
NULL == 0
\* JS null in a string-valued field (parentName)
NullName == "<null>"
\* the Drive item that is the target folder
ROOT_FOLDER_ID == 1
\* the parent of a top-level tab
NoParent == 0

TabIds == {1, 2, 3}
Titles == {"A", "B"}
Contents == {0, 1}
Procs == {1, 2}

\* ------------------------------------------------------------- sequences
RECURSIVE SeqOfSet(_)
\* the elements of a finite set of integers in ascending order
SeqOfSet(S) ==
  IF S = {} THEN <<>>
  ELSE LET m == CHOOSE x \in S : \A y \in S : x <= y
       IN <<m>> \o SeqOfSet(S \ {m})

Range(s) == {s[i] : i \in 1..Len(s)}

\* ------------------------------------------------------------------- Doc
\* doc: [present tab ids -> [title, content, parent]]
\* doc.getTabs(): the top-level tabs, in document order
getTabs(d) == SeqOfSet({t \in DOMAIN d : d[t].parent = NoParent})

\* tab.getChildTabs(): the child tabs, in document order
getChildTabs(d, t) == SeqOfSet({c \in DOMAIN d : d[c].parent = t})

RECURSIVE Descendants(_, _)
Descendants(d, t) ==
  LET cs == {c \in DOMAIN d : d[c].parent = t}
  IN cs \cup UNION {Descendants(d, c) : c \in cs}

\* a digest that does not depend on the body text
getTabContentHashOfNothing(content) == <<"md5", 0>>

\* getTabContentHash: the hex MD5 digest of the body text; the model keeps the
\* digest symbolic and collision free
getTabContentHash(content) == <<"md5", content>>

\* `${tabTitle}.pdf`
PdfName(title) == title \o ".pdf"

\* ----------------------------------------------------------------- Drive
\* drive: a sequence of items, the id of an item is its index
\*   kind: "file" | "folder", name, parents: set of folder ids,
\*   trashed, gone (deleted for good), and for a PDF the script created: the tab
\*   and the content it was rendered from (tab 0: not a PDF of the script)
Item(kind, name, parent, tab, content) ==
  [kind |-> kind, name |-> name, parents |-> {parent}, trashed |-> FALSE,
   gone |-> FALSE, tab |-> tab, content |-> content]

RootItem ==
  [kind |-> "folder", name |-> "root", parents |-> {}, trashed |-> FALSE,
   gone |-> FALSE, tab |-> 0, content |-> 0]

\* DriveApp.getFileById(id) returns (does not throw)
FileFound(drv, id) ==
  id \in 1..Len(drv) /\ drv[id].kind = "file" /\ ~drv[id].gone

\* DriveApp.getFolderById(id) returns (does not throw)
FolderFound(drv, id) ==
  id \in 1..Len(drv) /\ drv[id].kind = "folder" /\ ~drv[id].gone

\* folder.getFiles() / folder.getFolders(): the items of a kind in a folder
ItemsIn(drv, folder, kind) ==
  {i \in 1..Len(drv) : drv[i].kind = kind /\ ~drv[i].gone /\ folder \in drv[i].parents}

\* folder.getFilesByName(name) / folder.getFoldersByName(name)
ItemsByName(drv, folder, kind, name) ==
  {i \in ItemsIn(drv, folder, kind) : drv[i].name = name}

setTrashed(drv, ids) ==
  [i \in 1..Len(drv) |-> IF i \in ids THEN [drv[i] EXCEPT !.trashed = TRUE] ELSE drv[i]]

setName(drv, id, name) == [drv EXCEPT ![id].name = name]

\* a rename that is always swallowed
safeRenameFileSwallowed(drv, id, name) == drv

\* safeRenameFile: the rename is swallowed when the file is gone
safeRenameFile(drv, id, name) ==
  IF FileFound(drv, id) THEN setName(drv, id, name) ELSE drv

\* safeRenameFolder: the rename is swallowed when the folder is gone
safeRenameFolder(drv, id, name) ==
  IF FolderFound(drv, id) THEN setName(drv, id, name) ELSE drv

RECURSIVE Ancestors(_, _)
\* the folders above an item
Ancestors(drv, id) ==
  drv[id].parents \cup UNION {Ancestors(drv, f) : f \in drv[id].parents}

\* targetFolder.addFile / addFolder throws (and is swallowed) when the target is
\* the item itself or lies below it: Drive refuses a folder cycle
AddRefused(drv, id, target) == target = id \/ id \in Ancestors(drv, target)

\* a folder looked up and created in the target folder, whatever the parent
getOrCreateFolderInRoot(drv, parent, name) ==
  LET existing == {i \in 1..Len(drv) :
                     /\ drv[i].kind = "folder" /\ ~drv[i].gone
                     /\ ROOT_FOLDER_ID \in drv[i].parents /\ drv[i].name = name}
  IN IF existing # {}
     THEN <<drv, CHOOSE f \in existing : \A g \in existing : f <= g>>
     ELSE <<Append(drv, [kind |-> "folder", name |-> name, parents |-> {ROOT_FOLDER_ID},
                         trashed |-> FALSE, gone |-> FALSE, tab |-> 0, content |-> 0]),
            Len(drv) + 1>>

\* line 326: parentFolder.createFolder(folderName): <<drive, folder id>>
createFolder(drv, parent, name) ==
  <<Append(drv, Item("folder", name, parent, 0, 0)), Len(drv) + 1>>

\* getOrCreateFolder: <<drive, folder id>>; the first same-named folder of the
\* parent when there is one (the lowest id), else a new folder
getOrCreateFolder(drv, parent, name) ==
  LET existing == ItemsByName(drv, parent, "folder", name)
  IN IF existing # {}
     THEN <<drv, CHOOSE f \in existing : \A g \in existing : f <= g>>
     ELSE createFolder(drv, parent, name)

\* ---------------------------------------------------------------- state
\* the JSON state object: keys in insertion order (Object.keys) and the entries
EmptyState == [keys |-> <<>>, ent |-> <<>>]

Has(s, t) == t \in Range(s.keys)

Entry(s, t) == s.ent[CHOOSE i \in 1..Len(s.keys) : s.keys[i] = t]

NewEntry(title) ==
  [fileId |-> NULL, folderId |-> NULL, title |-> title, parentName |-> NullName]

\* state[tabId] = e
Put(s, t, e) ==
  IF Has(s, t)
  THEN [s EXCEPT !.ent[CHOOSE i \in 1..Len(s.keys) : s.keys[i] = t] = e]
  ELSE [keys |-> Append(s.keys, t), ent |-> Append(s.ent, e)]

\* delete state[tabId]
Del(s, t) ==
  LET keep == {i \in 1..Len(s.keys) : s.keys[i] # t}
      idx == SeqOfSet(keep)
  IN [keys |-> [j \in 1..Len(idx) |-> s.keys[idx[j]]],
      ent |-> [j \in 1..Len(idx) |-> s.ent[idx[j]]]]

\* ------------------------------------------------------- Exporter Gateway
\* what one UrlFetchApp.fetch does: a response code, or the fetch throws
FETCH_THROWS == 0
Responses == {200, 429, 500, FETCH_THROWS}

\* a renderer script: the outcome of the i-th fetch of one exportTabToPDF call
AlwaysOk == [i \in 1..(MAX_RETRIES + 1) |-> 200]
AlwaysRateLimited == [i \in 1..(MAX_RETRIES + 1) |-> 429]

\* a loop that ends one pass early
lastPassOneShort(i) == i + 1 > MAX_RETRIES - 1

\* line 332: the pass of index i is the last one (i <= MAX_RETRIES fails next)
lastPass(i) == i + 1 > MAX_RETRIES

\* lines 349-355: the waits of the pass of index i after a response that is
\* not 200: a 429 waits, a thrown fetch waits unless the pass is the last one,
\* any other response goes on at once
backoffAfter(code, i) ==
  IF code = 429 \/ (code = FETCH_THROWS /\ i < MAX_RETRIES)
  THEN <<INITIAL_BACKOFF * (2 ^ i)>>
  ELSE <<>>

\* ------------------------------------------------------------- variables
VARIABLES
  doc,      \* the Google Doc: [tab id -> [title, content, parent]]
  drive,    \* the Drive items
  props,    \* Script Properties: [lock, state, hashes, lastCheck]
  clock,    \* Date.now()
  run,      \* per invocation: position in the script and its local variables
  hist,     \* how the last finished run ended and what changed since
  budget    \* what is left of the bounds

vars == <<doc, drive, props, clock, run, hist, budget>>

\* an invocation that is not running; what its last run did stays readable
IdleRun ==
  [pc |-> "idle", now |-> 0, state |-> EmptyState, activeTabIds |-> {},
   stack |-> <<>>, cur |-> <<>>, exportCount |-> 0, err |-> FALSE,
   outcome |-> "none", invoked |-> <<>>, failed |-> {}, touched |-> {}, orphans |-> {},
   since |-> [prev |-> "fresh", n |-> 0, last |-> <<>>, failed |-> {}],
   sawLock |-> NULL, pre |-> <<>>, atError |-> <<>>,
   todo |-> <<>>, odata |-> <<>>, edited |-> FALSE]

Running(p) == run[p].pc # "idle"
AllIdle == \A p \in Procs : ~Running(p)

\* a lock that is still live at the very age of the timeout
LockLiveAtTimeout(lockValue, now) == lockValue # NULL /\ now - lockValue <= LOCK_TIMEOUT_MS

\* SCRIPT_PROPERTIES.getProperty(LOCK_KEY) is set and younger than the timeout
LockLive(lockValue, now) == lockValue # NULL /\ now - lockValue < LOCK_TIMEOUT_MS

\* getStoredState: {} when the property is absent
getStoredState(prp) == IF prp.state = <<>> THEN EmptyState ELSE prp.state[1]

\* a fingerprint that is never found
StoredHashNeverFound(prp, t) == <<"none">>

\* SCRIPT_PROPERTIES.getProperty(`hash_${tabId}`)
StoredHash(prp, t) == IF t \in DOMAIN prp.hashes THEN prp.hashes[t] ELSE <<"none">>

\* the items of Drive that differ between two Drive tables
Changed(old, new) ==
  {i \in 1..Len(new) : i > Len(old) \/ new[i] # old[i]}

\* ------------------------------------------------------------------ Init
\* a Doc whose tabs are 1..k, each under ROOT or under a tab of lower id
InitDocs ==
  UNION {
    {d \in [1..k -> [title : Titles, content : {0}, parent : {NoParent} \cup TabIds]] :
       \A t \in 1..k : d[t].parent < t}
    : k \in 0..Cardinality(TabIds)}

Init ==
  /\ doc \in InitDocs
  /\ drive = <<RootItem>>
  /\ props = [lock |-> NULL, state |-> <<>>, hashes |-> <<>>, lastCheck |-> NULL]
  /\ clock = TickMs
  /\ run = [p \in Procs |-> IdleRun]
  /\ hist = [prev |-> "fresh", n |-> 0, last |-> <<>>, failed |-> {}]
  /\ budget = [events |-> MaxEvents, ticks |-> MaxTicks]

\* ------------------------------------------------- exportUpdatedTabsToPDF
\* lines 48-61: read the clock and the lock; leave when the lock is live.
\* Called by the trigger, or by forceExportAllTabs (line 387).
Begin(p) ==
  /\ run[p].pc \in {"idle", "forced"}
  /\ LET now == clock
         lockValue == props.lock
         since == IF run[p].pc = "forced" THEN run[p].since ELSE hist
     IN run' = [run EXCEPT ![p] =
                  IF LockLive(lockValue, now)
                  THEN [IdleRun EXCEPT !.now = now, !.outcome = "skipped", !.since = since,
                                       !.sawLock = lockValue]
                  ELSE [IdleRun EXCEPT !.pc = "setlock", !.now = now, !.since = since,
                                       !.sawLock = lockValue]]
  /\ UNCHANGED <<doc, drive, props, clock, hist, budget>>

\* line 64: SCRIPT_PROPERTIES.setProperty(LOCK_KEY, now.toString())
SetLock(p) ==
  /\ run[p].pc = "setlock"
  /\ props' = [props EXCEPT !.lock = run[p].now]
  /\ run' = [run EXCEPT ![p].pc = "load"]
  /\ hist' = [prev |-> "none", n |-> 0, last |-> <<>>, failed |-> {}]
  /\ UNCHANGED <<doc, drive, clock, budget>>

\* lines 68-76: open the Doc and the root folder, load the state, list the
\* top-level tabs
Load(p) ==
  /\ run[p].pc = "load"
  /\ run' = [run EXCEPT ![p].pc = "walk",
                        ![p].state = getStoredState(props),
                        ![p].activeTabIds = {},
                        ![p].exportCount = 0,
                        ![p].pre = <<[state |-> getStoredState(props),
                                      hashes |-> props.hashes]>>,
                        ![p].stack =
                           LET tabs == getTabs(doc)
                           IN [i \in 1..Len(tabs) |->
                                 [tab |-> tabs[i], parentFolder |-> ROOT_FOLDER_ID,
                                  parentName |-> "ROOT"]]]
  /\ UNCHANGED <<doc, drive, props, clock, hist, budget>>

\* ----------------------------------------------------- processTabHierarchy
\* Every call that writes to Drive or to the Script Properties, every fetch
\* and every listing whose result is used by a later write is a step of its
\* own: another invocation, a thrown error, a stop by the platform or an edit
\* of the Doc can come between any two of them.

\* the fingerprint written whatever the exporter returned
storeHashUnconditionally(prp, tabId, hash, exportedFile) ==
  [prp EXCEPT !.hashes =
     [t \in DOMAIN prp.hashes \cup {tabId} |-> IF t = tabId THEN hash ELSE prp.hashes[t]]]

\* lines 161-162: if (exportedFile) setProperty(storedHashKey, currentHash)
storeHash(prp, tabId, hash, exportedFile) ==
  IF exportedFile # NULL
  THEN [prp EXCEPT !.hashes =
          [t \in DOMAIN prp.hashes \cup {tabId} |-> IF t = tabId THEN hash ELSE prp.hashes[t]]]
  ELSE prp

\* lines 191-194: if (stateDirty) setProperty(STATE_KEY, JSON.stringify(state))
incrementalSave(prp, state, stateDirty) ==
  IF stateDirty THEN [prp EXCEPT !.state = <<state>>] ELSE prp

\* the locals of processTabHierarchy for the tab in hand
NewCur(tabId, tabTitle, savedParentName, structureChanged, countBefore) ==
  [tab |-> tabId, title |-> tabTitle, savedParentName |-> savedParentName,
   structureChanged |-> structureChanged, stateDirty |-> FALSE,
   countBefore |-> countBefore, slept |-> 0,
   \* lines 139, 334-346: currentHash, the loop index, the renderer, the blob,
   \* the iterator of line 343, exportedFile
   hash |-> <<"none">>, attempt |-> 0, script |-> <<>>, blob |-> 0,
   existing |-> {}, file |-> NULL,
   \* what the call of exportTabToPDF did: fetches sent, waits made
   requests |-> 0, sleeps |-> <<>>,
   \* moveItemToFolder: the item, the target, the parents still to leave,
   \* whether the target is still to join, and which call it is
   item |-> NULL, target |-> NULL, left |-> {}, add |-> FALSE, moving |-> "none",
   \* line 200: subFolder
   subFolder |-> NULL]

\* the tab in hand, its frame and its entry in the state of the run
CurOf(p) == run[p].cur[1]
FrameOf(p) == Head(run[p].stack)
EntryOf(p) == Entry(run[p].state, CurOf(p).tab)

\* lines 134-135: state[tabId].title = tabTitle; stateDirty = true
titleStored(r) ==
  [r EXCEPT !.state = Put(@, r.cur[1].tab, [Entry(@, r.cur[1].tab) EXCEPT !.title = r.cur[1].title]),
            !.cur[1].stateDirty = TRUE]

\* lines 191-192: where the traversal goes on once the export or the move is
\* settled
afterChecks(stateDirty) == IF stateDirty THEN "save" ELSE "children"

\* lines 226-231: the children are processed next, before the siblings
descend(d, r, subFolder) ==
  LET childTabs == getChildTabs(d, r.cur[1].tab)
      children == [i \in 1..Len(childTabs) |->
                     [tab |-> childTabs[i], parentFolder |-> subFolder,
                      parentName |-> r.cur[1].title]]
  IN [r EXCEPT !.pc = "walk", !.stack = children \o Tail(@), !.cur = <<>>]

\* lines 107-129: the title of the tab, its entry, the structure check and the
\* rename check
VisitTab(p) ==
  /\ run[p].pc = "walk"
  /\ run[p].stack # <<>>
  /\ LET r == run[p]
         frame == Head(r.stack)
         tabId == frame.tab
         tabTitle == doc[tabId].title
         \* line 114: initialize the state if missing
         state0 == IF Has(r.state, tabId) THEN r.state
                   ELSE Put(r.state, tabId, NewEntry(tabTitle))
         e0 == Entry(state0, tabId)
         \* lines 120-124
         savedParentName == e0.parentName
         structureChanged == e0.fileId # NULL /\ frame.parentName # savedParentName
         \* lines 127-128
         renamed == e0.title # tabTitle
         r1 == [r EXCEPT !.activeTabIds = @ \cup {tabId},
                         !.state = state0,
                         !.cur = <<NewCur(tabId, tabTitle, savedParentName,
                                          structureChanged, r.exportCount)>>]
     IN run' = [run EXCEPT ![p] =
                  IF ~renamed THEN [r1 EXCEPT !.pc = "check"]
                  ELSE IF e0.fileId # NULL THEN [r1 EXCEPT !.pc = "renamefile"]
                  ELSE IF e0.folderId # NULL THEN [r1 EXCEPT !.pc = "renamefolder"]
                  ELSE [titleStored(r1) EXCEPT !.pc = "check"]]
  /\ UNCHANGED <<doc, drive, props, clock, hist, budget>>

\* line 131: safeRenameFile(state[tabId].fileId, `${tabTitle}.pdf`)
RenameFile(p) ==
  /\ run[p].pc = "renamefile"
  /\ LET r == run[p]
         drv1 == safeRenameFile(drive, EntryOf(p).fileId, PdfName(CurOf(p).title))
         r1 == [r EXCEPT !.touched = @ \cup Changed(drive, drv1)]
     IN /\ drive' = drv1
        /\ run' = [run EXCEPT ![p] =
                     IF EntryOf(p).folderId # NULL THEN [r1 EXCEPT !.pc = "renamefolder"]
                     ELSE [titleStored(r1) EXCEPT !.pc = "check"]]
  /\ UNCHANGED <<doc, props, clock, hist, budget>>

\* lines 132-135: safeRenameFolder(state[tabId].folderId, tabTitle)
RenameFolder(p) ==
  /\ run[p].pc = "renamefolder"
  /\ LET r == run[p]
         drv1 == safeRenameFolder(drive, EntryOf(p).folderId, CurOf(p).title)
         r1 == [r EXCEPT !.touched = @ \cup Changed(drive, drv1)]
     IN /\ drive' = drv1
        /\ run' = [run EXCEPT ![p] = [titleStored(r1) EXCEPT !.pc = "check"]]
  /\ UNCHANGED <<doc, props, clock, hist, budget>>

\* lines 139-156 and 176-180: the fingerprint of the body, the stored
\* fingerprint, the self-healing existence test; then the export, the move or
\* neither
CheckExport(p) ==
  /\ run[p].pc = "check"
  /\ LET r == run[p]
         c == CurOf(p)
         e == EntryOf(p)
         parentFolder == FrameOf(p).parentFolder
         currentHash == getTabContentHash(doc[c.tab].content)
         contentChanged == currentHash # StoredHash(props, c.tab)
         fileExists == e.fileId # NULL /\ FileFound(drive, e.fileId)
         \* line 152
         e1 == IF e.fileId # NULL /\ ~fileExists THEN [e EXCEPT !.fileId = NULL] ELSE e
         doExport == contentChanged \/ ~fileExists
         doMove == ~doExport /\ c.structureChanged
         \* lines 280-286: getParents of the file
         left == drive[e.fileId].parents \ {parentFolder}
         add == parentFolder \notin drive[e.fileId].parents
         r1 == [r EXCEPT !.state = Put(@, c.tab, e1), !.cur[1].hash = currentHash]
     IN run' = [run EXCEPT ![p] =
                  IF doExport
                  THEN [r1 EXCEPT !.pc = "fetch", !.invoked = Append(@, c.tab)]
                  ELSE IF doMove /\ (left # {} \/ add)
                  THEN [r1 EXCEPT !.pc = "move",
                                  !.cur[1].item = e.fileId, !.cur[1].target = parentFolder,
                                  !.cur[1].left = left, !.cur[1].add = add,
                                  !.cur[1].moving = "file"]
                  ELSE IF doMove
                  THEN \* lines 182-183
                       [r1 EXCEPT !.pc = "save",
                                  !.state = Put(@, c.tab, [e1 EXCEPT !.parentName = FrameOf(p).parentName]),
                                  !.cur[1].stateDirty = TRUE]
                  ELSE [r1 EXCEPT !.pc = afterChecks(c.stateDirty)]]
  /\ UNCHANGED <<doc, drive, props, clock, hist, budget>>

\* ---------------------------------------------------------- exportTabToPDF
\* the renderer answers every fetch of one call with 200, or with 429
Scripts == {AlwaysOk, AlwaysRateLimited}

\* lines 332-339 and 349-355: one pass of the loop, in which the fetch has
\* the outcome code: what follows a response other than 200 is the back-off
\* wait and the next index, or the end of the loop (return null, line 357).
\* The wait of lines 350 and 354 lets its milliseconds pass.
\* cur.script keeps the outcomes of the fetches of the call so far
FetchGets(p, code) ==
  /\ run[p].pc = "fetch"
  /\ LET r == run[p]
         c == CurOf(p)
         gaveUp == code # 200 /\ lastPass(c.attempt)
         backoff == backoffAfter(code, c.attempt)
         r1 == [r EXCEPT !.cur[1].script = Append(@, code), !.cur[1].requests = @ + 1]
     IN run' = [run EXCEPT ![p] =
                  IF code = 200
                  THEN [r1 EXCEPT !.pc = "list", !.cur[1].blob = doc[c.tab].content]
                  ELSE [r1 EXCEPT !.pc = IF gaveUp THEN "exported" ELSE "fetch",
                                  !.cur[1].attempt = @ + 1,
                                  !.cur[1].sleeps = @ \o backoff,
                                  !.failed = IF gaveUp THEN @ \cup {c.tab} ELSE @]]
        /\ clock' = IF code # 200 /\ backoff # <<>> THEN clock + backoff[1] ELSE clock
  /\ UNCHANGED <<doc, drive, props, hist>>

\* a pass of the loop in a run, against a renderer that follows one of the
\* scripts through the call; a renderer that does not answer 200 at the first
\* fetch of a call is an event
Fetch(p) ==
  /\ run[p].pc = "fetch"
  /\ \E script \in Scripts :
       LET c == CurOf(p)
       IN /\ \A k \in 1..c.attempt : script[k] = c.script[k]
          /\ c.attempt = 0 => (script = AlwaysOk \/ budget.events > 0)
          /\ FetchGets(p, script[c.attempt + 1])
          /\ budget' = IF c.attempt = 0 /\ script # AlwaysOk
                       THEN [budget EXCEPT !.events = @ - 1] ELSE budget

\* lines 340-343: folder.getFilesByName(`${tabTitle}.pdf`)
ListExisting(p) ==
  /\ run[p].pc = "list"
  /\ LET existing == ItemsByName(drive, FrameOf(p).parentFolder, "file", PdfName(CurOf(p).title))
     IN run' = [run EXCEPT ![p].pc = IF existing = {} THEN "create" ELSE "trash",
                           ![p].cur[1].existing = existing]
  /\ UNCHANGED <<doc, drive, props, clock, hist, budget>>

\* line 344: existing.next().setTrashed(true)
TrashExisting(p) ==
  /\ run[p].pc = "trash"
  /\ LET c == CurOf(p)
         i == CHOOSE x \in c.existing : \A y \in c.existing : x <= y
         drv1 == setTrashed(drive, {i})
     IN /\ drive' = drv1
        /\ run' = [run EXCEPT ![p].pc = IF c.existing = {i} THEN "create" ELSE "trash",
                              ![p].cur[1].existing = @ \ {i},
                              ![p].touched = @ \cup Changed(drive, drv1)]
  /\ UNCHANGED <<doc, props, clock, hist, budget>>

\* line 346: return folder.createFile(blob)
CreateFile(p) ==
  /\ run[p].pc = "create"
  /\ LET c == CurOf(p)
         drv1 == Append(drive, Item("file", PdfName(c.title), FrameOf(p).parentFolder,
                                    c.tab, c.blob))
     IN /\ drive' = drv1
        /\ run' = [run EXCEPT ![p].pc = "exported",
                              ![p].cur[1].file = Len(drive) + 1,
                              ![p].touched = @ \cup Changed(drive, drv1)]
  /\ UNCHANGED <<doc, props, clock, hist, budget>>

\* lines 161-171: the fingerprint is stored, the entry updated in memory, the
\* pause made (its milliseconds pass); nothing of it when exportTabToPDF
\* returned null
RecordExport(p) ==
  /\ run[p].pc = "exported"
  /\ LET r == run[p]
         c == CurOf(p)
         e == EntryOf(p)
     IN /\ props' = storeHash(props, c.tab, c.hash, c.file)
        /\ run' = [run EXCEPT ![p] =
                     IF c.file # NULL
                     THEN [r EXCEPT !.pc = "save",
                                    !.state = Put(@, c.tab,
                                                  [e EXCEPT !.fileId = c.file, !.title = c.title,
                                                            !.parentName = FrameOf(p).parentName]),
                                    !.exportCount = @ + 1,
                                    !.cur[1].stateDirty = TRUE,
                                    \* line 171: Utilities.sleep(DELAY_BETWEEN_EXPORTS)
                                    !.cur[1].slept = DELAY_BETWEEN_EXPORTS]
                     ELSE [r EXCEPT !.pc = afterChecks(c.stateDirty)]]
        /\ clock' = IF c.file # NULL THEN clock + DELAY_BETWEEN_EXPORTS ELSE clock
  /\ UNCHANGED <<doc, drive, hist, budget>>

\* ---------------------------------------------------------- moveItemToFolder
\* line 289: parent.removeFile(item), or removeFolder for a folder
removeFromParent(drv, id, parent) == [drv EXCEPT ![id].parents = @ \ {parent}]

\* lines 295-298: targetFolder.addFile(item), or addFolder; refused and
\* swallowed when it would make a cycle
addToFolder(drv, id, target) ==
  IF AddRefused(drv, id, target) THEN drv ELSE [drv EXCEPT ![id].parents = @ \cup {target}]

\* one call of moveItemToFolder that changes Drive: the item leaves a parent
\* that is not the target, or, these all left, joins the target. After the last
\* one: lines 182-183 for the PDF, the descent for the folder.
MoveStep(p) ==
  /\ run[p].pc = "move"
  /\ LET r == run[p]
         c == CurOf(p)
         e == EntryOf(p)
         removing == c.left # {}
         f == CHOOSE x \in c.left : \A y \in c.left : x <= y
         drv1 == IF removing THEN removeFromParent(drive, c.item, f)
                 ELSE addToFolder(drive, c.item, c.target)
         left1 == IF removing THEN c.left \ {f} ELSE {}
         done == ~removing \/ (left1 = {} /\ ~c.add)
         r1 == [r EXCEPT !.touched = @ \cup Changed(drive, drv1),
                         !.cur[1].left = left1]
     IN /\ drive' = drv1
        /\ run' = [run EXCEPT ![p] =
                     IF ~done THEN r1
                     ELSE IF c.moving = "file"
                     THEN [r1 EXCEPT !.pc = "save",
                                     !.state = Put(@, c.tab, [e EXCEPT !.parentName = FrameOf(p).parentName]),
                                     !.cur[1].stateDirty = TRUE,
                                     !.cur[1].item = NULL, !.cur[1].target = NULL,
                                     !.cur[1].add = FALSE, !.cur[1].moving = "none"]
                     ELSE descend(doc, r1, c.subFolder)]
  /\ UNCHANGED <<doc, props, clock, hist, budget>>

\* lines 192-194: the incremental save
IncrementalSave(p) ==
  /\ run[p].pc = "save"
  /\ props' = incrementalSave(props, run[p].state, CurOf(p).stateDirty)
  /\ run' = [run EXCEPT ![p].pc = "children"]
  /\ UNCHANGED <<doc, drive, clock, hist, budget>>

\* lines 197-211: the child tabs; the tracked folder, looked up by its id
Children(p) ==
  /\ run[p].pc = "children"
  /\ LET r == run[p]
         c == CurOf(p)
         e == EntryOf(p)
         parentFolder == FrameOf(p).parentFolder
         hasChildren == Len(getChildTabs(doc, c.tab)) > 0
         folderNeedsMove == e.folderId # NULL /\ FrameOf(p).parentName # c.savedParentName
         tracked == e.folderId # NULL /\ FolderFound(drive, e.folderId)
         left == drive[e.folderId].parents \ {parentFolder}
         add == parentFolder \notin drive[e.folderId].parents
     IN run' = [run EXCEPT ![p] =
                  IF ~hasChildren
                  THEN [r EXCEPT !.pc = "walk", !.stack = Tail(@), !.cur = <<>>]
                  ELSE IF ~tracked
                  THEN [r EXCEPT !.pc = "findfolder"]
                  ELSE IF folderNeedsMove /\ (left # {} \/ add)
                  THEN [r EXCEPT !.pc = "move",
                                 !.cur[1].item = e.folderId, !.cur[1].target = parentFolder,
                                 !.cur[1].left = left, !.cur[1].add = add,
                                 !.cur[1].moving = "folder",
                                 !.cur[1].subFolder = e.folderId]
                  ELSE descend(doc, r, e.folderId)]
  /\ UNCHANGED <<doc, drive, props, clock, hist, budget>>

\* lines 214 and 219, getOrCreateFolder up to line 325: the same-named folder
\* of the parent folder when it has one (then lines 215-216, 220-221)
FindFolder(p) ==
  /\ run[p].pc = "findfolder"
  /\ LET c == CurOf(p)
         made == getOrCreateFolder(drive, FrameOf(p).parentFolder, c.title)
         found == made[1] = drive
     IN run' = [run EXCEPT ![p] =
                  IF found
                  THEN [run[p] EXCEPT !.pc = "savefolder",
                                      !.state = Put(@, c.tab, [EntryOf(p) EXCEPT !.folderId = made[2]]),
                                      !.cur[1].subFolder = made[2]]
                  ELSE [run[p] EXCEPT !.pc = "createfolder"]]
  /\ UNCHANGED <<doc, drive, props, clock, hist, budget>>

\* line 326: parentFolder.createFolder(folderName), then lines 215-216, 220-221
CreateFolder(p) ==
  /\ run[p].pc = "createfolder"
  /\ LET c == CurOf(p)
         made == createFolder(drive, FrameOf(p).parentFolder, c.title)
     IN /\ drive' = made[1]
        /\ run' = [run EXCEPT ![p].pc = "savefolder",
                              ![p].state = Put(@, c.tab, [EntryOf(p) EXCEPT !.folderId = made[2]]),
                              ![p].cur[1].subFolder = made[2],
                              ![p].touched = @ \cup Changed(drive, made[1])]
  /\ UNCHANGED <<doc, props, clock, hist, budget>>

\* line 224: if (folderDirty) setProperty(STATE_KEY, ...), then the children
SaveFolderId(p) ==
  /\ run[p].pc = "savefolder"
  /\ props' = [props EXCEPT !.state = <<run[p].state>>]
  /\ run' = [run EXCEPT ![p] = descend(doc, run[p], CurOf(p).subFolder)]
  /\ UNCHANGED <<doc, drive, clock, hist, budget>>

\* ------------------------------------------------------------ cleanupOrphans
\* where the forEach of line 244 goes on: the next call for the first orphan
\* left, or the final save
orphanPc(state, todo) ==
  IF todo = <<>> THEN "final"
  ELSE LET orphanData == Entry(state, Head(todo))
       IN IF orphanData.fileId # NULL THEN "ofile"
          ELSE IF orphanData.folderId # NULL THEN "ofolder"
          ELSE "oforget"

\* lines 87 and 242-246, once every tab is processed: the keys of the state
\* that are not in the active set
CleanupOrphans(p) ==
  /\ run[p].pc = "walk"
  /\ run[p].stack = <<>>
  /\ LET todo == SelectSeq(run[p].state.keys, LAMBDA t : t \notin run[p].activeTabIds)
     IN run' = [run EXCEPT ![p].pc = orphanPc(run[p].state, todo),
                           ![p].todo = todo]
  /\ UNCHANGED <<doc, drive, props, clock, hist, budget>>

\* lines 251-256: the PDF of the orphan goes to the trash
TrashOrphanFile(p) ==
  /\ run[p].pc = "ofile"
  /\ LET orphanData == Entry(run[p].state, Head(run[p].todo))
         drv1 == IF FileFound(drive, orphanData.fileId)
                 THEN setTrashed(drive, {orphanData.fileId}) ELSE drive
     IN /\ drive' = drv1
        /\ run' = [run EXCEPT ![p].pc = IF orphanData.folderId # NULL THEN "ofolder" ELSE "oforget",
                              ![p].touched = @ \cup Changed(drive, drv1)]
  /\ UNCHANGED <<doc, props, clock, hist, budget>>

\* lines 259-268: the folder of the orphan goes to the trash, only if empty;
\* the lookup and the two listings that guard line 264 are read in its step
TrashOrphanFolder(p) ==
  /\ run[p].pc = "ofolder"
  /\ LET orphanData == Entry(run[p].state, Head(run[p].todo))
         hasFolder == FolderFound(drive, orphanData.folderId)
         isEmpty == hasFolder
                    /\ ItemsIn(drive, orphanData.folderId, "file") = {}
                    /\ ItemsIn(drive, orphanData.folderId, "folder") = {}
         drv1 == IF isEmpty THEN setTrashed(drive, {orphanData.folderId}) ELSE drive
     IN /\ drive' = drv1
        /\ run' = [run EXCEPT ![p].pc = "oforget",
                              ![p].odata = <<[hadFolder |-> hasFolder, wasEmpty |-> isEmpty]>>,
                              ![p].touched = @ \cup Changed(drive, drv1)]
  /\ UNCHANGED <<doc, props, clock, hist, budget>>

\* lines 271-272: delete state[tabId]; deleteProperty(`hash_${tabId}`)
ForgetOrphan(p) ==
  /\ run[p].pc = "oforget"
  /\ LET r == run[p]
         tabId == Head(r.todo)
         orphanData == Entry(r.state, tabId)
         state1 == Del(r.state, tabId)
         seen == IF r.odata = <<>> THEN [hadFolder |-> FALSE, wasEmpty |-> FALSE]
                 ELSE r.odata[1]
     IN /\ props' = [props EXCEPT !.hashes = [t \in DOMAIN @ \ {tabId} |-> @[t]]]
        /\ run' = [run EXCEPT ![p] =
                     [r EXCEPT !.pc = orphanPc(state1, Tail(r.todo)),
                               !.state = state1,
                               !.todo = Tail(@),
                               !.odata = <<>>,
                               !.orphans = @ \cup {[tab |-> tabId, fileId |-> orphanData.fileId,
                                                    folderId |-> orphanData.folderId,
                                                    hadFolder |-> seen.hadFolder,
                                                    wasEmpty |-> seen.wasEmpty]}]]
  /\ UNCHANGED <<doc, drive, clock, hist, budget>>

\* ---------------------------------------------------------- the run, cont.
\* line 90: the final save of the state
FinalSave(p) ==
  /\ run[p].pc = "final"
  /\ props' = [props EXCEPT !.state = <<run[p].state>>]
  /\ run' = [run EXCEPT ![p].pc = "lastcheck"]
  /\ UNCHANGED <<doc, drive, clock, hist, budget>>

\* lines 91-94: setProperty('lastDocumentCheck', Date.now()), "Run completed"
SetLastCheck(p) ==
  /\ run[p].pc = "lastcheck"
  /\ props' = [props EXCEPT !.lastCheck = clock]
  /\ run' = [run EXCEPT ![p].pc = "release"]
  /\ UNCHANGED <<doc, drive, clock, hist, budget>>

\* the positions of the try block of lines 66-95 whose next call is inside no
\* inner try: an error it throws reaches the catch of line 96. (The calls of
\* lines 131-132, 148, 180-181, 208-210, 253, 261-264 and 334-346 are inside a
\* try of their own.)
InTry(p) ==
  \/ run[p].pc \in {"load", "check", "save", "children", "findfolder", "createfolder",
                    "savefolder", "oforget", "final", "lastcheck"}
  \/ run[p].pc = "walk" /\ run[p].stack # <<>>
  \/ run[p].pc = "exported" /\ CurOf(p).file # NULL

\* lines 96-98: the call the run is at throws; the error leaves every call
\* of processTabHierarchy that was in progress and is caught
Throw(p) ==
  /\ InTry(p)
  /\ budget.events > 0
  /\ budget' = [budget EXCEPT !.events = @ - 1]
  /\ run' = [run EXCEPT ![p].pc = "release", ![p].err = TRUE,
                        ![p].cur = <<>>, ![p].stack = <<>>,
                        ![p].atError = <<[pc |-> run[p].pc, state |-> props.state,
                                          hashes |-> props.hashes]>>]
  /\ UNCHANGED <<doc, drive, props, clock, hist>>

\* how a run that returned leaves the history: an edit of the Doc made while
\* it ran counts among the changes the next run finds
Ended(r) ==
  [prev |-> IF r.err THEN "none"
            ELSE IF r.exportCount = Len(r.invoked) THEN "clean" ELSE "done",
   n |-> IF r.edited THEN 2 ELSE 0, last |-> <<>>, failed |-> r.failed]

\* the lock deleted at the end of the try block instead of in finally
ReleaseOnSuccessOnly(p) ==
  /\ run[p].pc = "release"
  /\ props' = IF run[p].err THEN props ELSE [props EXCEPT !.lock = NULL]
  /\ run' = [run EXCEPT ![p].pc = "idle",
                        ![p].outcome = IF run[p].err THEN "failed" ELSE "completed"]
  /\ hist' = Ended(run[p])
  /\ UNCHANGED <<doc, drive, clock, budget>>

\* lines 99-103: finally, delete the lock
Release(p) ==
  /\ run[p].pc = "release"
  /\ props' = [props EXCEPT !.lock = NULL]
  /\ run' = [run EXCEPT ![p].pc = "idle",
                        ![p].outcome = IF run[p].err THEN "failed" ELSE "completed"]
  /\ hist' = Ended(run[p])
  /\ UNCHANGED <<doc, drive, clock, budget>>

\* the platform stops the run (the 6 minute ceiling): nothing more is executed
Kill(p) ==
  /\ Running(p)
  /\ budget.events > 0
  /\ budget' = [budget EXCEPT !.events = @ - 1]
  /\ run' = [run EXCEPT ![p].pc = "idle", ![p].outcome = "killed"]
  /\ hist' = [prev |-> "none", n |-> 0, last |-> <<>>, failed |-> {}]
  /\ UNCHANGED <<doc, drive, props, clock>>

\* time passes between two calls; no tick carries a run in progress beyond
\* the platform's ceiling
Tick ==
  /\ budget.ticks > 0
  /\ \A p \in Procs : Running(p) => clock + TickMs - run[p].now <= MAX_RUNTIME_MS
  /\ clock' = clock + TickMs
  /\ budget' = [budget EXCEPT !.ticks = @ - 1]
  /\ UNCHANGED <<doc, drive, props, run, hist>>

\* time passes between two runs while a lock marker is left behind (the clock
\* is read by the lock check and by lastDocumentCheck only)
TickIdle ==
  /\ props.lock # NULL
  /\ AllIdle
  /\ Tick

\* ------------------------------------------------------ the user edits the Doc
\* hist tells how the last run ended and the tabs whose export failed in it,
\* counts the changes since and keeps the change when it is the only one
Changes(what, x) ==
  [hist EXCEPT !.n = IF @ = 0 THEN 1 ELSE 2,
               !.last = IF hist.n = 0 THEN <<[op |-> what, on |-> x]>> ELSE <<>>]

Edited(what, t) ==
  /\ AllIdle
  /\ hist.prev # "fresh"
  /\ budget.events > 0
  /\ budget' = [budget EXCEPT !.events = @ - 1]
  /\ hist' = Changes(what, t)
  /\ run' = [p \in Procs |-> IdleRun]
  /\ UNCHANGED <<drive, props, clock>>

EditContent(t) ==
  /\ t \in DOMAIN doc
  /\ \E c \in Contents \ {doc[t].content} : doc' = [doc EXCEPT ![t].content = c]
  /\ Edited("content", t)

\* the body of a tab is edited while a run is in progress: the run goes on,
\* and what it finds changed is no longer what had changed when it started
EditContentMidRun(t) ==
  /\ t \in DOMAIN doc
  /\ \E p \in Procs : Running(p)
  /\ budget.events > 0
  /\ \E c \in Contents \ {doc[t].content} : doc' = [doc EXCEPT ![t].content = c]
  /\ budget' = [budget EXCEPT !.events = @ - 1]
  /\ run' = [p \in Procs |->
               IF Running(p)
               THEN [run[p] EXCEPT !.edited = TRUE, !.since.n = 2, !.since.last = <<>>]
               ELSE run[p]]
  /\ UNCHANGED <<drive, props, clock, hist>>

RenameTab(t) ==
  /\ t \in DOMAIN doc
  /\ \E title \in Titles \ {doc[t].title} : doc' = [doc EXCEPT ![t].title = title]
  /\ Edited("rename", t)

MoveTab(t) ==
  /\ t \in DOMAIN doc
  /\ \E np \in ({NoParent} \cup DOMAIN doc) \ ({t, doc[t].parent} \cup Descendants(doc, t)) :
       doc' = [doc EXCEPT ![t].parent = np]
  /\ Edited("move", t)

AddTab(t) ==
  /\ t \in TabIds \ DOMAIN doc
  /\ \E np \in {NoParent} \cup DOMAIN doc, title \in Titles :
       doc' = [x \in DOMAIN doc \cup {t} |->
                 IF x = t THEN [title |-> title, content |-> 0, parent |-> np] ELSE doc[x]]
  /\ Edited("add", t)

\* a tab is removed with its subtree
RemoveTab(t) ==
  /\ t \in DOMAIN doc
  /\ doc' = [x \in DOMAIN doc \ ({t} \cup Descendants(doc, t)) |-> doc[x]]
  /\ Edited("remove", t)

\* --------------------------------------------------- the user acts in Drive
UserActed(what, i) ==
  /\ AllIdle
  /\ budget.events > 0
  /\ budget' = [budget EXCEPT !.events = @ - 1]
  /\ hist' = Changes(what, i)
  /\ run' = [p \in Procs |-> IdleRun]
  /\ UNCHANGED <<doc, props, clock>>

\* the user deletes a PDF for good: getFileById throws from now on
UserDeletesFile(i) ==
  /\ i \in 1..Len(drive)
  /\ drive[i].kind = "file" /\ ~drive[i].gone
  /\ drive' = [drive EXCEPT ![i].gone = TRUE]
  /\ UserActed("deleted", i)

\* the user moves a PDF to the trash (the delete of the Drive interface):
\* getFileById still returns it
UserTrashesFile(i) ==
  /\ i \in 1..Len(drive)
  /\ drive[i].kind = "file" /\ ~drive[i].gone /\ ~drive[i].trashed
  /\ drive' = [drive EXCEPT ![i].trashed = TRUE]
  /\ UserActed("trashed", i)

\* the user drops a file of their own into a folder
UserAddsFile(f) ==
  /\ f \in 1..Len(drive)
  /\ drive[f].kind = "folder" /\ ~drive[f].gone
  /\ \E title \in Titles :
       drive' = Append(drive, Item("file", PdfName(title), f, 0, 0))
  /\ UserActed("added", f)

\* ------------------------------------------------------- forceExportAllTabs
\* a forced run that deletes the lock and nothing else
ForceExportClearingLockOnly(p) ==
  /\ run[p].pc = "idle"
  /\ hist.prev # "fresh"
  /\ budget.events > 0
  /\ budget' = [budget EXCEPT !.events = @ - 1]
  /\ props' = [props EXCEPT !.lock = NULL]
  /\ run' = [run EXCEPT ![p] =
               [IdleRun EXCEPT !.pc = "forced", !.now = clock,
                               !.since = [hist EXCEPT !.prev = "forced"]]]
  /\ UNCHANGED <<doc, drive, clock, hist>>

\* lines 384-386: SCRIPT_PROPERTIES.deleteAllProperties(); the call of
\* exportUpdatedTabsToPDF of line 387 is the next step (Begin). Called by hand,
\* once something was stored (on fresh properties the call is a plain run).
ForceExportAllTabs(p) ==
  /\ run[p].pc = "idle"
  /\ hist.prev # "fresh"
  /\ budget.events > 0
  /\ budget' = [budget EXCEPT !.events = @ - 1]
  /\ props' = [lock |-> NULL, state |-> <<>>, hashes |-> <<>>, lastCheck |-> NULL]
  /\ run' = [run EXCEPT ![p] =
               [IdleRun EXCEPT !.pc = "forced", !.now = clock,
                               !.since = [hist EXCEPT !.prev = "forced"]]]
  /\ UNCHANGED <<doc, drive, clock, hist>>

\* -------------------------------------------------------- specifications
\* the calls of a run that every traversal makes
TabSteps(p) ==
  \/ VisitTab(p)
  \/ CheckExport(p)
  \/ ListExisting(p)
  \/ TrashExisting(p)
  \/ CreateFile(p)
  \/ RecordExport(p)
  \/ IncrementalSave(p)
  \/ Children(p)

\* the calls made for a tab that was renamed or moved, or that has children
StructureSteps(p) ==
  \/ RenameFile(p)
  \/ RenameFolder(p)
  \/ MoveStep(p)
  \/ FindFolder(p)
  \/ CreateFolder(p)
  \/ SaveFolderId(p)

\* the calls made for a tab that left the Doc
OrphanSteps(p) ==
  \/ TrashOrphanFile(p)
  \/ TrashOrphanFolder(p)
  \/ ForgetOrphan(p)

\* exportUpdatedTabsToPDF around the traversal
RunSteps(p) ==
  \/ Begin(p)
  \/ SetLock(p)
  \/ Load(p)
  \/ CleanupOrphans(p)
  \/ FinalSave(p)
  \/ SetLastCheck(p)
  \/ Release(p)

Step(p) ==
  \/ RunSteps(p)
  \/ TabSteps(p)
  \/ Fetch(p)
  \/ StructureSteps(p)
  \/ OrphanSteps(p)
  \/ Throw(p)
  \/ Kill(p)

Environment ==
  \/ TickIdle
  \/ \E t \in TabIds : EditContent(t)
  \/ \E t \in TabIds : EditContentMidRun(t)
  \/ \E t \in TabIds : RenameTab(t)
  \/ \E t \in TabIds : MoveTab(t)
  \/ \E t \in TabIds : AddTab(t)
  \/ \E t \in TabIds : RemoveTab(t)
  \/ \E i \in 1..Len(drive) : UserDeletesFile(i)
  \/ \E i \in 1..Len(drive) : UserTrashesFile(i)
  \/ \E f \in 1..Len(drive) : UserAddsFile(f)

\* one trigger at a time: the runs follow one another
Next == Step(1) \/ ForceExportAllTabs(1) \/ Environment

Spec == Init /\ [][Next]_vars

\* overlapping triggers: two invocations over a Doc of one tab, while time
\* passes and the platform may stop a run once
InitLock ==
  /\ doc = [t \in {1} |-> [title |-> "A", content |-> 0, parent |-> NoParent]]
  /\ drive = <<RootItem>>
  /\ props = [lock |-> NULL, state |-> <<>>, hashes |-> <<>>, lastCheck |-> NULL]
  /\ clock = TickMs
  /\ run = [p \in Procs |-> IdleRun]
  /\ hist = [prev |-> "fresh", n |-> 0, last |-> <<>>, failed |-> {}]
  /\ budget = [events |-> 1, ticks |-> MaxTicks]

\* a Doc of one tab without children that is never edited: no rename, no
\* move, no folder, no orphan
StepLock(p) ==
  \/ RunSteps(p)
  \/ TabSteps(p)
  \/ Fetch(p)
  \/ Kill(p)

NextLock ==
  \/ \E p \in Procs : StepLock(p)
  \/ Tick

SpecLock == InitLock /\ [][NextLock]_vars

\* a call of exportTabToPDF for a tab, into a target folder that already
\* holds up to MaxOld files named like a PDF of a tab, in the trash or not,
\* against a renderer that gives any sequence of outcomes; while the call is
\* under way the user may drop a file into the folder, or the platform may
\* stop the call
OldFiles ==
  UNION {[1..k -> {[(Item("file", PdfName(title), ROOT_FOLDER_ID, 0, 0)) EXCEPT !.trashed = b] :
                     title \in Titles, b \in BOOLEAN}]
         : k \in 0..MaxOld}

InitGateway ==
  /\ doc \in [{1} -> [title : Titles, content : {0}, parent : {NoParent}]]
  /\ drive \in {<<RootItem>> \o old : old \in OldFiles}
  /\ props = [lock |-> NULL, state |-> <<>>, hashes |-> <<>>, lastCheck |-> NULL]
  /\ clock = TickMs
  /\ run = [p \in Procs |-> IdleRun]
  /\ hist = [prev |-> "fresh", n |-> 0, last |-> <<>>, failed |-> {}]
  /\ budget = [events |-> MaxEvents, ticks |-> MaxTicks]

\* lines 329-330: exportTabToPDF(DOCUMENT_ID, tabId, tabTitle, folder) is
\* entered; the Drive it finds is kept to read the result against
GatewayCall(p) ==
  /\ run[p].pc = "idle" /\ run[p].outcome = "none"
  /\ run' = [run EXCEPT ![p] =
               [IdleRun EXCEPT !.pc = "fetch",
                               !.invoked = <<1>>,
                               !.stack = <<[tab |-> 1, parentFolder |-> ROOT_FOLDER_ID,
                                            parentName |-> "ROOT"]>>,
                               !.cur = <<[before |-> drive]
                                         @@ NewCur(1, doc[1].title, NullName, FALSE, 0)>>]]
  /\ UNCHANGED <<doc, drive, props, clock, hist, budget>>

\* lines 332-357: one pass of the loop of the call, the fetch having one of
\* the outcomes codes
GatewayFetch(p, codes) ==
  /\ \E code \in codes : FetchGets(p, code)
  /\ UNCHANGED budget

\* the user drops a file named like a PDF of a tab into the target folder
\* while a call is under way
UserAddsFileMidCall ==
  /\ \E p \in Procs : Running(p)
  /\ budget.events > 0
  /\ budget' = [budget EXCEPT !.events = @ - 1]
  /\ \E title \in Titles :
       drive' = Append(drive, Item("file", PdfName(title), ROOT_FOLDER_ID, 0, 0))
  /\ UNCHANGED <<doc, props, clock, run, hist>>

StepGateway(p) ==
  \/ GatewayCall(p)
  \/ GatewayFetch(p, Responses)
  \/ ListExisting(p)
  \/ TrashExisting(p)
  \/ CreateFile(p)
  \/ Kill(p)

NextGateway == StepGateway(1) \/ UserAddsFileMidCall

SpecGateway == InitGateway /\ [][NextGateway]_vars

\* two calls of exportTabToPDF for the same tab that overlap, as the calls of
\* two invocations in the protected section do; the renderer answers 200 or
\* 429
StepOverlap(p) ==
  \/ GatewayCall(p)
  \/ GatewayFetch(p, {200, 429})
  \/ ListExisting(p)
  \/ TrashExisting(p)
  \/ CreateFile(p)
  \/ Kill(p)

NextOverlap ==
  \/ \E p \in Procs : StepOverlap(p)
  \/ UserAddsFileMidCall

SpecOverlap == InitGateway /\ [][NextOverlap]_vars

\* ------------------------------------------------------ reading the result
\* the run of p returned normally, having done its final save
Completed(p) == run[p].pc = "idle" /\ run[p].outcome = "completed"

\* every exporter call of the run of p returned a file
AllExportsOk(p) == run[p].exportCount = Len(run[p].invoked)

\* the persisted entry of a tab
Tracked(t) == Entry(getStoredState(props), t)
IsTracked(t) == Has(getStoredState(props), t)

\* the destination folder of the children of a tab: its tracked folder
FolderOf(t) == IF t = NoParent THEN ROOT_FOLDER_ID ELSE Tracked(t).folderId

\* the tracked PDF of tab t lies in the folder of the parent of t
ArtifactInPlace(t) ==
  /\ IsTracked(t)
  /\ FileFound(drive, Tracked(t).fileId)
  /\ doc[t].parent # NoParent => IsTracked(doc[t].parent)
  /\ drive[Tracked(t).fileId].parents = {FolderOf(doc[t].parent)}

\* a tab with children has its tracked folder in the folder of its parent
FolderInPlace(t) ==
  getChildTabs(doc, t) # <<>> =>
    /\ FolderFound(drive, Tracked(t).folderId)
    /\ drive[Tracked(t).folderId].parents = {FolderOf(doc[t].parent)}

\* no PDF the script made for a tab that left the Doc is still in a folder
NoArtifactOfRemovedTab ==
  \A i \in 1..Len(drive) :
    (drive[i].kind = "file" /\ drive[i].tab # 0 /\ drive[i].tab \notin DOMAIN doc)
      => (drive[i].trashed \/ drive[i].gone)

\* the destination has the shape of the Doc
Mirror ==
  /\ \A t \in DOMAIN doc : ArtifactInPlace(t) /\ FolderInPlace(t)
  /\ NoArtifactOfRemovedTab

\* the tracked PDF of a tab is not in the trash
NoTrashedArtifact(t) ==
  FileFound(drive, Tracked(t).fileId) => ~drive[Tracked(t).fileId].trashed

\* the run of p followed a completed run whose exports all succeeded, with
\* exactly one change in between: `what` on x
AfterOneChange(p, what, x) ==
  /\ Completed(p)
  /\ run[p].since.prev = "clean"
  /\ run[p].since.n = 1
  /\ run[p].since.last = <<[op |-> what, on |-> x]>>

\* two tabs of the same parent have the same title
SiblingCollision ==
  \E t, u \in DOMAIN doc :
    t # u /\ doc[t].parent = doc[u].parent /\ doc[t].title = doc[u].title

\* ------------------------------------------------------------------ C3
\* C3: a run that acquired the lock and returned (normally or after a caught
\* error) has deleted the lock marker, and after a caught error the persisted
\* state and fingerprints are the ones persisted before the error
C3_LockReleasedOnEveryExit ==
  \A p \in Procs :
    (run[p].pc = "idle" /\ run[p].outcome \in {"completed", "failed"}) =>
      /\ props.lock = NULL
      /\ run[p].outcome = "failed" =>
           /\ run[p].atError # <<>>
           /\ props.state = run[p].atError[1].state
           /\ props.hashes = run[p].atError[1].hashes

\* an error was raised after an incremental save: the lock is gone, the saved
\* state is still there
C3_Witness ==
  \E p \in Procs :
    /\ run[p].pc = "idle" /\ run[p].outcome = "failed"
    /\ run[p].atError[1].pc = "children"
    /\ props.state # <<>>
    /\ props.lock = NULL

\* ------------------------------------------------------------------ C4
\* C4 as stated: a completed run that follows a completed run, with no change
\* in between, calls the exporter for no tab and changes nothing in Drive
C4_Idempotence_Original ==
  \A p \in Procs :
    (Completed(p) /\ run[p].since.prev \in {"done", "clean"} /\ run[p].since.n = 0) =>
      (run[p].invoked = <<>> /\ run[p].touched = {})

\* C4 amended: a completed run that follows a completed run all of whose
\* exports succeeded, with no change in between, calls the exporter for no tab
\* and changes nothing in Drive
C4_Idempotence ==
  \A p \in Procs :
    (Completed(p) /\ run[p].since.prev = "clean" /\ run[p].since.n = 0) =>
      (run[p].invoked = <<>> /\ run[p].touched = {})

\* a second run over a Doc with tabs that had nothing to do
C4_Witness ==
  \E p \in Procs :
    /\ Completed(p) /\ run[p].since.prev = "clean" /\ run[p].since.n = 0
    /\ Cardinality(DOMAIN doc) >= 2
    /\ run[p].activeTabIds = DOMAIN doc
    /\ run[p].invoked = <<>>

\* ------------------------------------------------------------------ C5
\* C5: once a run finds nothing left to do (no export, no change in Drive,
\* after a fully successful run and no edit), the destination mirrors the Doc.
\* Stated for a Doc without same-titled siblings whose tracked PDFs are all
\* out of the trash, where the claim fails all the same.
C5_Convergence ==
  \A p \in Procs :
    (/\ Completed(p) /\ run[p].since.prev = "clean" /\ run[p].since.n = 0
     /\ run[p].invoked = <<>> /\ run[p].touched = {}
     /\ ~SiblingCollision
     /\ \A t \in DOMAIN doc : IsTracked(t) /\ NoTrashedArtifact(t))
      => Mirror

\* ------------------------------------------------------------------ C6
\* C6: after a tab was moved to another parent (nothing else changed), the
\* next run puts its tracked PDF and folder in the folder of the new parent
\* without calling the exporter, and stores the new parent.
\* Stated for a Doc without same-titled siblings whose tracked PDFs are all
\* out of the trash, where the claim fails all the same.
C6_MoveWithoutReexport ==
  \A p \in Procs : \A t \in DOMAIN doc :
    (/\ AfterOneChange(p, "move", t)
     /\ ~SiblingCollision
     /\ \A u \in DOMAIN doc : IsTracked(u) /\ NoTrashedArtifact(u)) =>
      /\ t \notin Range(run[p].invoked)
      /\ ArtifactInPlace(t)
      /\ FolderInPlace(t)
      /\ Tracked(t).parentName =
           (IF doc[t].parent = NoParent THEN "ROOT" ELSE doc[doc[t].parent].title)

\* ------------------------------------------------------------------ C7
\* C7: after only the title of a tab changed, the next run names the tracked
\* PDF '<title>.pdf' and the tracked folder '<title>', persists the new title
\* and does not call the exporter for the tab
C7_RenameWithoutReexport ==
  \A p \in Procs : \A t \in DOMAIN doc :
    AfterOneChange(p, "rename", t) =>
      /\ t \notin Range(run[p].invoked)
      /\ IsTracked(t)
      /\ Tracked(t).title = doc[t].title
      /\ FileFound(drive, Tracked(t).fileId)
      /\ drive[Tracked(t).fileId].name = PdfName(doc[t].title)
      /\ Tracked(t).folderId # NULL => drive[Tracked(t).folderId].name = doc[t].title

\* a renamed tab with a folder: both the PDF and the folder carry the new name
C7_Witness ==
  \E p \in Procs : \E t \in DOMAIN doc :
    /\ AfterOneChange(p, "rename", t)
    /\ Tracked(t).folderId # NULL
    /\ drive[Tracked(t).fileId].name = PdfName(doc[t].title)
    /\ drive[Tracked(t).folderId].name = doc[t].title
    /\ run[p].touched = {Tracked(t).fileId, Tracked(t).folderId}

\* ------------------------------------------------------------------ C8
\* what the run of p found persisted when it loaded the state
Before(p, t) == Entry(run[p].pre[1].state, t)

\* the run of p left tab t alone: its entry, its fingerprint and its PDF
Untouched(p, t) ==
  /\ IsTracked(t) /\ Has(run[p].pre[1].state, t)
  /\ Tracked(t) = Before(p, t)
  /\ StoredHash(props, t) = StoredHash(run[p].pre[1], t)
  /\ Tracked(t).fileId \notin run[p].touched

\* the tracked PDF of another tab has the name of the PDF of d, in the
\* destination folder of d
SameNamedArtifact(d) ==
  \E t \in DOMAIN doc \ {d} :
    /\ IsTracked(t)
    /\ FileFound(drive, Tracked(t).fileId)
    /\ drive[Tracked(t).fileId].name = PdfName(doc[d].title)
    /\ drive[Tracked(t).fileId].parents \cap drive[Tracked(d).fileId].parents # {}

\* C8 as stated: after only the content of tab d changed, the next run calls
\* the exporter for d alone and leaves every other tab's entry, fingerprint
\* and PDF as they were
C8_SelectiveReexport_Original ==
  \A p \in Procs : \A d \in DOMAIN doc :
    AfterOneChange(p, "content", d) =>
      /\ run[p].invoked = <<d>>
      /\ \A t \in DOMAIN doc \ {d} : Untouched(p, t)

\* C8 amended: the same, provided no other tab's tracked PDF has the name of
\* the PDF of d in the destination folder of d
C8_SelectiveReexport ==
  \A p \in Procs : \A d \in DOMAIN doc :
    (AfterOneChange(p, "content", d) /\ ~SameNamedArtifact(d)) =>
      /\ run[p].invoked = <<d>>
      /\ \A t \in DOMAIN doc \ {d} : Untouched(p, t)

\* the content of one tab of three changed: one export, a new PDF for it
C8_Witness ==
  \E p \in Procs : \E d \in DOMAIN doc :
    /\ AfterOneChange(p, "content", d) /\ AllExportsOk(p) /\ ~SameNamedArtifact(d)
    /\ DOMAIN doc = TabIds
    /\ run[p].invoked = <<d>>
    /\ Tracked(d).fileId # Before(p, d).fileId
    /\ drive[Tracked(d).fileId].content = doc[d].content

\* ------------------------------------------------------------------ C9
\* the first run ever, over a Doc none of whose tabs is known, completed and
\* every export succeeded
FirstRunDone(p) ==
  Completed(p) /\ run[p].since.prev = "fresh" /\ AllExportsOk(p)

\* one exporter call per tab, the count reported, every tab with its own PDF
\* in the folder of its parent, every tab with children with a folder there
FirstRunResult(p) ==
  /\ Len(run[p].invoked) = Cardinality(DOMAIN doc)
  /\ Range(run[p].invoked) = DOMAIN doc
  /\ run[p].exportCount = Cardinality(DOMAIN doc)
  /\ \A t \in DOMAIN doc :
       /\ ArtifactInPlace(t)
       /\ drive[Tracked(t).fileId].tab = t
       /\ FolderInPlace(t)

\* C9 as stated: after the first run every tab has its own tracked PDF in the
\* folder of its parent (a PDF in the trash is not in the folder)
C9_FirstRun_Original ==
  \A p \in Procs :
    FirstRunDone(p) =>
      /\ FirstRunResult(p)
      /\ \A t \in DOMAIN doc : ~drive[Tracked(t).fileId].trashed

\* C9 amended: the same, provided no two tabs of the same parent have the
\* same title
C9_FirstRun ==
  \A p \in Procs :
    (FirstRunDone(p) /\ ~SiblingCollision) =>
      /\ FirstRunResult(p)
      /\ \A t \in DOMAIN doc : ~drive[Tracked(t).fileId].trashed

\* a first run over three tabs, one of them two levels down
C9_Witness ==
  \E p \in Procs :
    /\ FirstRunDone(p) /\ ~SiblingCollision
    /\ DOMAIN doc = TabIds
    /\ \E t \in DOMAIN doc : doc[t].parent # NoParent /\ doc[doc[t].parent].parent # NoParent
    /\ run[p].exportCount = Cardinality(TabIds)

\* ------------------------------------------------------------------ C10
\* C10: the folder of a removed tab is trashed by the cleanup only if it was
\* empty; a folder left in place because it was not empty is still tracked
\* in the state the run goes on with
C10_OrphanFolder ==
  \A p \in Procs : \A o \in run[p].orphans :
    (run[p].pc \in {"final", "lastcheck", "release"} /\ o.hadFolder) =>
      /\ drive[o.folderId].trashed => o.wasEmpty
      /\ ~o.wasEmpty =>
           /\ ~drive[o.folderId].trashed
           /\ \E t \in Range(run[p].state.keys) : Entry(run[p].state, t).folderId = o.folderId

\* ------------------------------------------------------------------ C1
\* between the write of the lock marker and its deletion
InCritical(p) == run[p].pc \notin {"idle", "forced", "setlock"}

\* C1: at most one invocation is between acquiring and releasing the lock
C1_MutualExclusion ==
  Cardinality({p \in Procs : InCritical(p)}) <= 1

\* ------------------------------------------------------------------ C2
\* the step of p is the lock check of lines 48-61
IsBegin(p) ==
  /\ run[p].pc \in {"idle", "forced"}
  /\ run'[p] # run[p]
  /\ run'[p].pc = "setlock" \/ run'[p].outcome = "skipped"

\* C2: an invocation that finds a lock younger than the timeout returns at
\* once and changes nothing (Drive, state, fingerprints, lock); one that finds
\* no lock or an older one goes on and writes its own timestamp as the lock
C2_LockExclusivity ==
  [][\A p \in Procs :
       /\ IsBegin(p) =>
            IF props.lock # NULL /\ clock - props.lock < LOCK_TIMEOUT_MS
            THEN /\ run'[p].pc = "idle" /\ run'[p].outcome = "skipped"
                 /\ run'[p].invoked = <<>> /\ run'[p].touched = {}
                 /\ drive' = drive /\ props' = props
            ELSE /\ run'[p].pc = "setlock" /\ run'[p].now = clock
       /\ (run[p].pc = "setlock" /\ run'[p].pc # "setlock" /\ run'[p].outcome # "killed") =>
            (run'[p].pc = "load" /\ props'.lock = run[p].now)]_vars

\* one invocation was turned away by a live lock; later another one found the
\* lock older than the timeout and wrote its own timestamp over it
C2_Witness ==
  \E p, q \in Procs :
    /\ p # q
    /\ run[q].pc = "idle" /\ run[q].outcome = "skipped"
    /\ run[q].now - run[q].sawLock < LOCK_TIMEOUT_MS
    /\ run[p].pc = "load"
    /\ run[p].sawLock # NULL
    /\ run[p].now - run[p].sawLock >= LOCK_TIMEOUT_MS
    /\ props.lock = run[p].now

\* ------------------------------------------------------------------ C11
\* every item of a folder is in the trash or deleted for good: the folder is
\* empty for whoever looks at the destination
EmptiedFolder(f) ==
  \A i \in ItemsIn(drive, f, "file") \cup ItemsIn(drive, f, "folder") : drive[i].trashed

\* C11: after a completed run that follows the removal of a tab (alone or with
\* its subtree), the PDF of every removed tab is in the trash, its entry and
\* its fingerprint are gone, and a folder of a removed tab that these deletions
\* emptied is in the trash too
C11_CleanupOfDeletedTabs ==
  \A p \in Procs : \A x \in TabIds :
    AfterOneChange(p, "remove", x) =>
      /\ \E o \in run[p].orphans : o.tab = x
      /\ \A o \in run[p].orphans :
           /\ ~IsTracked(o.tab)
           /\ o.tab \notin DOMAIN props.hashes
           /\ FileFound(drive, o.fileId) => drive[o.fileId].trashed
           /\ (o.hadFolder /\ EmptiedFolder(o.folderId)) => drive[o.folderId].trashed

\* ------------------------------------------------------------------ C12
\* the step of p is a call of the cleanup of line 87 that trashes an item
IsCleanup(p) ==
  run[p].pc \in {"ofile", "ofolder"} /\ run'[p].pc \in {"ofolder", "oforget"}

\* the tracked PDFs and folders of the tabs that are in the state of the run
\* of p and not in its active set
OrphanItems(p) ==
  LET gone == Range(run[p].state.keys) \ run[p].activeTabIds
  IN ({Entry(run[p].state, t).fileId : t \in gone}
      \cup {Entry(run[p].state, t).folderId : t \in gone}) \ {NULL}

\* lines 72-94: the state object of the run of p exists: it is declared
\* inside the try block (line 72), so the catch and the finally of a run have
\* none, and neither has a run that has not loaded it yet
StateInScope(p) == run[p].pc \notin {"idle", "forced", "setlock", "load", "release"}

\* the files and folders the system tracks: in the persisted state or in the
\* state object of a run that has one
TrackedItems ==
  LET ids(s) == {Entry(s, t).fileId : t \in Range(s.keys)}
                \cup {Entry(s, t).folderId : t \in Range(s.keys)}
  IN (ids(getStoredState(props))
      \cup UNION {ids(run[p].state) : p \in {q \in Procs : StateInScope(q)}}) \ {NULL}

\* C12: in a step of a run, an item of the destination goes to the trash only
\* in the cleanup and only as the tracked PDF or folder of a tab that left the
\* Doc; an item the system does not track is never trashed, renamed or moved
C12_OnlyDeletionPath ==
  [][\A i \in 1..Len(drive) :
       ~AllIdle =>
       /\ (drive'[i].trashed /\ ~drive[i].trashed) =>
            \E p \in Procs : IsCleanup(p) /\ i \in OrphanItems(p)
       /\ i \notin TrackedItems =>
            /\ drive'[i].trashed = drive[i].trashed
            /\ drive'[i].name = drive[i].name
            /\ drive'[i].parents = drive[i].parents]_vars

\* ------------------------------------------------------------------ C13
\* runs over a Doc of up to two tabs that the platform may stop at any step,
\* against a renderer that may fail, with edits of the Doc and a PDF deleted
\* by hand between the runs
SmallDocs == {d \in InitDocs : Cardinality(DOMAIN d) <= 2}

InitSmall ==
  /\ doc \in SmallDocs
  /\ drive = <<RootItem>>
  /\ props = [lock |-> NULL, state |-> <<>>, hashes |-> <<>>, lastCheck |-> NULL]
  /\ clock = TickMs
  /\ run = [p \in Procs |-> IdleRun]
  /\ hist = [prev |-> "fresh", n |-> 0, last |-> <<>>, failed |-> {}]
  /\ budget = [events |-> ManyEvents, ticks |-> 0]

NextResume ==
  \/ RunSteps(1)
  \/ TabSteps(1)
  \/ Fetch(1)
  \/ StructureSteps(1)
  \/ OrphanSteps(1)
  \/ Kill(1)
  \/ \E t \in TabIds : EditContent(t)
  \/ \E t \in TabIds : RenameTab(t)
  \/ \E t \in TabIds : MoveTab(t)
  \/ \E t \in TabIds : RemoveTab(t)
  \/ \E i \in 1..Len(drive) : UserDeletesFile(i)

SpecResume == InitSmall /\ [][NextResume]_vars

\* the platform stopped the run of p
Killed(p) == run[p].pc = "idle" /\ run[p].outcome = "killed"

\* the tab whose call of processTabHierarchy (lines 107-232) is the innermost
\* one in progress, if any; for a stopped run, the one at the stop. Between
\* two tabs (line 227) it is the parent whose forEach of lines 226-231 has the
\* next tab to visit; the forEach of line 79 over the top-level tabs is in no
\* call
InFlight(p) ==
  IF run[p].cur # <<>> THEN {run[p].cur[1].tab}
  ELSE IF run[p].stack # <<>> /\ doc[Head(run[p].stack).tab].parent # NoParent
  THEN {doc[Head(run[p].stack).tab].parent}
  ELSE {}

\* C13: when a run is stopped, the persisted state holds the file id, the
\* folder id, the title and the parent name that the run has in hand for every
\* tab it was done with; every PDF or folder the run created, renamed or
\* moved and left out of the trash is the one the persisted state tracks for
\* its tab, except for the PDF and the folder of the one tab in hand when the
\* run was stopped
C13_CrashResumability ==
  \A p \in Procs :
    Killed(p) =>
      /\ \A t \in run[p].activeTabIds \ InFlight(p) :
           LET e == Entry(run[p].state, t)
           IN /\ (e.fileId # NULL \/ e.folderId # NULL) => IsTracked(t)
              /\ IsTracked(t) =>
                   /\ Tracked(t).fileId = e.fileId
                   /\ Tracked(t).folderId = e.folderId
                   /\ Tracked(t).title = e.title
                   /\ Tracked(t).parentName = e.parentName
      /\ \A i \in run[p].touched :
           ~drive[i].trashed =>
             IF drive[i].kind = "file"
             THEN drive[i].tab \in InFlight(p)
                  \/ (IsTracked(drive[i].tab) /\ Tracked(drive[i].tab).fileId = i)
             ELSE \/ \E t \in InFlight(p) : Entry(run[p].state, t).folderId = i
                  \/ \E t \in run[p].activeTabIds : IsTracked(t) /\ Tracked(t).folderId = i

\* ------------------------------------------------------------------ C14
\* the call of exportTabToPDF of p has returned (line 346 or line 357)
Called(p) == run[p].pc = "exported"
Call(p) == run[p].cur[1]

\* every fetch of the call was answered 429
AllRateLimited(script) == \A k \in DOMAIN script : script[k] = 429

\* C14: against a renderer that answers 429 to every request, exportTabToPDF
\* sends MAX_RETRIES + 1 requests, returns null and has neither created nor
\* trashed anything in the destination
C14_BoundedRetry ==
  \A p \in Procs :
    (Called(p) /\ AllRateLimited(Call(p).script)) =>
      /\ Call(p).requests = MAX_RETRIES + 1
      /\ Call(p).file = NULL
      /\ run[p].touched = {}

\* the call gave up while the folder held a same-named file out of the trash
C14_Witness ==
  /\ Called(1) /\ AllRateLimited(Call(1).script)
  /\ Call(1).requests = MAX_RETRIES + 1
  /\ \E i \in 2..Len(drive) : drive[i].name = PdfName(doc[1].title) /\ ~drive[i].trashed

\* ------------------------------------------------------------------ C15
\* every request of the call got a response that is neither 200 nor 429, or
\* the fetch threw
OtherFailuresOnly(script) ==
  \A k \in DOMAIN script : script[k] \in Responses \ {200, 429}

\* C15: when every request fails with a response other than 200 and 429 or
\* with a thrown error, exportTabToPDF sends MAX_RETRIES + 1 requests, waits
\* INITIAL_BACKOFF * 2^attempt before each of the MAX_RETRIES retries, and
\* returns null
C15_UniformFailurePolicy ==
  \A p \in Procs :
    (Called(p) /\ OtherFailuresOnly(Call(p).script)) =>
      /\ Call(p).requests = MAX_RETRIES + 1
      /\ Call(p).file = NULL
      /\ Call(p).sleeps = [k \in 1..MAX_RETRIES |-> INITIAL_BACKOFF * (2 ^ (k - 1))]

\* ------------------------------------------------------------------ C17
\* the files of the target folder with the name of the PDF of the tab
SameNamed(drv) ==
  {i \in 2..Len(drv) : drv[i].kind = "file" /\ ROOT_FOLDER_ID \in drv[i].parents
                       /\ drv[i].name = PdfName(doc[1].title)}

\* the step in which the call of p returns a file (line 346)
Returns(p) == run[p].pc = "create" /\ run'[p].pc = "exported"

\* C17: when an export returns a file, the folder holds exactly one file of
\* that name out of the trash, the returned one, and every file of that name
\* that was there when the call began went to the trash before the new one
\* was created
C17_ExportReplacesSameNamed ==
  [][\A p \in Procs :
       Returns(p) =>
         /\ {i \in SameNamed(drive') : ~drive'[i].trashed} = {Call(p).file'}
         /\ Call(p).file' \notin 1..Len(Call(p).before)
         /\ \A i \in SameNamed(Call(p).before) : drive[i].trashed]_vars

\* ------------------------------------------------------------------ C16
\* runs over a Doc of up to two tabs that all come to their end, against a
\* renderer that may fail, with edits of the Doc and PDFs deleted or trashed
\* by hand between the runs
NextRetry ==
  \/ RunSteps(1)
  \/ TabSteps(1)
  \/ Fetch(1)
  \/ StructureSteps(1)
  \/ OrphanSteps(1)
  \/ \E t \in TabIds : EditContent(t)
  \/ \E t \in TabIds : RenameTab(t)
  \/ \E t \in TabIds : MoveTab(t)
  \/ \E t \in TabIds : RemoveTab(t)
  \/ \E i \in 1..Len(drive) : UserDeletesFile(i)
  \/ \E i \in 1..Len(drive) : UserTrashesFile(i)

SpecRetry == InitSmall /\ [][NextRetry]_vars

\* the run of p has just come back from exportTabToPDF with null for the tab
\* in hand
ExportJustFailed(p) ==
  /\ run[p].pc \in {"exported", "save", "children"}
  /\ run[p].cur[1].tab \in run[p].failed

\* what a failed export leaves of tab t in the run of p: the fingerprint and
\* the parent name stored for the tab are the ones the run found, the tracked
\* file id is the one the run found (or null when that file no longer
\* exists), the export count is the one before the attempt
FailureLeavesStored(p) ==
  LET t == run[p].cur[1].tab
      known == Has(run[p].pre[1].state, t)
      e == Entry(run[p].state, t)
  IN /\ StoredHash(props, t) = StoredHash(run[p].pre[1], t)
     /\ e.parentName = (IF known THEN Before(p, t).parentName ELSE NullName)
     /\ e.fileId = (IF known /\ FileFound(drive, Before(p, t).fileId)
                    THEN Before(p, t).fileId ELSE NULL)
     /\ run[p].exportCount = run[p].cur[1].countBefore

\* the run of p started with the content of tab t back at the content of the
\* stored fingerprint, the one last exported, and with the PDF tracked for
\* the tab still found
BackAtExported(p, t) ==
  /\ Has(run[p].pre[1].state, t)
  /\ StoredHash(run[p].pre[1], t) = getTabContentHash(doc[t].content)
  /\ FileFound(drive, Before(p, t).fileId)

\* C16: when exportTabToPDF returned null for a tab, the fingerprint, the
\* parent name, the tracked file id and the export count are left as the run
\* found them; and a completed run that comes after a completed run with
\* failed exports calls the exporter again for every such tab that is still
\* in the Doc, unless the content of the tab is back at the content that was
\* last exported while the PDF of that export is still found
C16_FailedExportRetried ==
  \A p \in Procs :
    /\ ExportJustFailed(p) => FailureLeavesStored(p)
    /\ (Completed(p) /\ run[p].since.prev = "done") =>
         \A t \in run[p].since.failed \cap DOMAIN doc :
           ~BackAtExported(p, t) => t \in Range(run[p].invoked)

\* the same without the exception: every tab whose export failed and that is
\* still in the Doc is exported again by the next completed run
C16_FailedExportRetried_Original ==
  \A p \in Procs :
    /\ ExportJustFailed(p) => FailureLeavesStored(p)
    /\ (Completed(p) /\ run[p].since.prev = "done") =>
         \A t \in run[p].since.failed \cap DOMAIN doc : t \in Range(run[p].invoked)

\* a tab with an exported PDF was edited, its export failed in one run, and
\* the next run exported it
C16_Witness ==
  \E p \in Procs : \E t \in DOMAIN doc :
    /\ Completed(p) /\ run[p].since.prev = "done"
    /\ t \in run[p].since.failed
    /\ Has(run[p].pre[1].state, t)
    /\ FileFound(drive, Before(p, t).fileId)
    /\ StoredHash(run[p].pre[1], t) # getTabContentHash(doc[t].content)
    /\ t \in Range(run[p].invoked)
    /\ t \notin run[p].failed
    /\ Tracked(t).fileId # Before(p, t).fileId
    /\ FileFound(drive, Tracked(t).fileId)
    /\ StoredHash(props, t) = getTabContentHash(doc[t].content)

\* ------------------------------------------------------------------ C18
\* the run of p followed a clean run and one change: the tracked PDF i of tab
\* t left the destination, deleted for good or moved to the trash
ArtifactLeft(p, t, i) ==
  /\ AfterOneChange(p, "deleted", i) \/ AfterOneChange(p, "trashed", i)
  /\ Has(run[p].pre[1].state, t)
  /\ Before(p, t).fileId = i

\* C18: when the tracked PDF of a tab is no longer in the destination
\* (nothing else changed), the next run calls the exporter for the tab
\* although its fingerprint is unchanged and no longer tracks the old file: it
\* tracks the newly created PDF when the export succeeded, and no file when
\* it failed
C18_ExistenceSelfHeal ==
  \A p \in Procs : \A i \in 1..Len(drive) : \A t \in DOMAIN doc :
    ArtifactLeft(p, t, i) =>
      /\ t \in Range(run[p].invoked)
      /\ IsTracked(t)
      /\ Tracked(t).fileId # i
      /\ IF t \in run[p].failed
         THEN Tracked(t).fileId = NULL
         ELSE /\ FileFound(drive, Tracked(t).fileId)
              /\ Tracked(t).fileId \in run[p].touched
              /\ drive[Tracked(t).fileId].tab = t
              /\ ~drive[Tracked(t).fileId].trashed

\* ------------------------------------------------------------------ C19
\* the run of p was started by forceExportAllTabs
Forced(p) == run[p].since.prev = "forced"

\* C19: forceExportAllTabs leaves no property behind (lock, state,
\* fingerprints, lastDocumentCheck) when its run starts, the run loads an
\* empty state, and a forced run that completes has called the exporter once
\* for every tab of the Doc
C19_ForceFullResync ==
  \A p \in Procs :
    /\ (Forced(p) /\ run[p].pc \in {"forced", "setlock"}) =>
         props = [lock |-> NULL, state |-> <<>>, hashes |-> <<>>, lastCheck |-> NULL]
    /\ (Forced(p) /\ run[p].pre # <<>>) =>
         (run[p].pre[1].state = EmptyState /\ run[p].pre[1].hashes = <<>>)
    /\ (Forced(p) /\ Completed(p)) =>
         /\ Range(run[p].invoked) = DOMAIN doc
         /\ Len(run[p].invoked) = Cardinality(DOMAIN doc)

\* a forced run over a Doc of three tabs that an earlier run had exported
\* already: every tab has its earlier PDF in the trash and a new one tracked
C19_Witness ==
  \E p \in Procs :
    /\ Forced(p) /\ Completed(p) /\ AllExportsOk(p)
    /\ DOMAIN doc = TabIds
    /\ run[p].since.n = 0
    /\ \A t \in DOMAIN doc :
         /\ FileFound(drive, Tracked(t).fileId)
         /\ \E i \in 1..Len(drive) :
              i # Tracked(t).fileId /\ drive[i].tab = t /\ drive[i].trashed

\* ------------------------------------------------------------------ C20
\* the run of p has made the pause of line 171 for the tab in hand and is
\* about to execute line 191
Paused(p) ==
  /\ run[p].pc = "save"
  /\ run[p].cur[1].slept = DELAY_BETWEEN_EXPORTS

\* C20: once the pause after a successful export has been made, the new
\* fingerprint and the entry of the tab with its new file id and parent name
\* are persisted, and no child or sibling of the tab has been processed yet
C20_PersistBeforePause ==
  \A p \in Procs :
    Paused(p) =>
      LET t == run[p].cur[1].tab
          e == Entry(run[p].state, t)
      IN /\ StoredHash(props, t) = run[p].cur[1].hash
         /\ IsTracked(t)
         /\ Tracked(t).fileId = e.fileId
         /\ Tracked(t).parentName = e.parentName
         /\ \A c \in DOMAIN doc :
              (c \in Descendants(doc, t) \/ (c # t /\ doc[c].parent = doc[t].parent /\ c > t))
                => c \notin run[p].activeTabIds

\* ------------------------------------------------------------ SpecEdits
\* runs that all complete, every export succeeding, with up to two edits of
\* the Doc between them
InitEdits ==
  /\ doc \in InitDocs
  /\ drive = <<RootItem>>
  /\ props = [lock |-> NULL, state |-> <<>>, hashes |-> <<>>, lastCheck |-> NULL]
  /\ clock = TickMs
  /\ run = [p \in Procs |-> IdleRun]
  /\ hist = [prev |-> "fresh", n |-> 0, last |-> <<>>, failed |-> {}]
  /\ budget = [events |-> 2, ticks |-> 0]

StepEdits(p) ==
  \/ RunSteps(p)
  \/ TabSteps(p)
  \/ (Fetch(p) /\ budget' = budget)
  \/ StructureSteps(p)
  \/ OrphanSteps(p)

Edits ==
  \/ \E t \in TabIds : EditContent(t)
  \/ \E t \in TabIds : RenameTab(t)
  \/ \E t \in TabIds : MoveTab(t)
  \/ \E t \in TabIds : AddTab(t)
  \/ \E t \in TabIds : RemoveTab(t)

NextEdits == StepEdits(1) \/ Edits

SpecEdits == InitEdits /\ [][NextEdits]_vars

\* ------------------------------------------------------------------ C21
\* the PDFs the script created that are neither in the trash nor deleted
LiveArtifacts ==
  {i \in 1..Len(drive) : /\ drive[i].kind = "file" /\ drive[i].tab # 0
                         /\ ~drive[i].trashed /\ ~drive[i].gone}

\* C21: after a completed run all of whose exports succeeded, every PDF the
\* script ever created that is not in the trash is the tracked file of exactly
\* one entry of the persisted state
C21_NoSupersededArtifact ==
  \A p \in Procs :
    (Completed(p) /\ AllExportsOk(p)) =>
      \A i \in LiveArtifacts :
        Cardinality({t \in Range(getStoredState(props).keys) : Tracked(t).fileId = i}) = 1

\* ------------------------------------------------------------ SpecCrash
\* runs whose exports succeed, that the platform may stop at any step and
\* that a thrown error may end, with edits of the Doc between them and time
\* passing after a stop
StepCrash(p) == StepEdits(p) \/ Throw(p) \/ Kill(p)

InitCrash ==
  /\ doc \in InitDocs
  /\ drive = <<RootItem>>
  /\ props = [lock |-> NULL, state |-> <<>>, hashes |-> <<>>, lastCheck |-> NULL]
  /\ clock = TickMs
  /\ run = [p \in Procs |-> IdleRun]
  /\ hist = [prev |-> "fresh", n |-> 0, last |-> <<>>, failed |-> {}]
  /\ budget = [events |-> 2, ticks |-> MaxTicks]

\* the lock of a stopped run grows stale as time passes
NextCrash == StepCrash(1) \/ Edits \/ TickIdle

SpecCrash == InitCrash /\ [][NextCrash]_vars

\* ------------------------------------------------------------------ C22
\* the tracked PDF of tab t is usable: the entry has a file id that
\* getFileById finds
UsableFile(t) ==
  /\ IsTracked(t)
  /\ Tracked(t).fileId # NULL
  /\ FileFound(drive, Tracked(t).fileId)

\* C22: between runs, completed or stopped, when the stored fingerprint of a
\* tab is the digest of a content X and the entry of the tab has a usable
\* file, that file was rendered from X
C22_FingerprintArtifactConsistency ==
  AllIdle =>
    \A t \in TabIds : \A X \in Contents :
      (StoredHash(props, t) = getTabContentHash(X) /\ UsableFile(t))
        => drive[Tracked(t).fileId].content = X

\* ------------------------------------------------------------------ C23
\* the tab ids that have a hash_<id> property
Fingerprinted == {t \in TabIds : StoredHash(props, t) # <<"none">>}

\* C23: after a run that completes, the keys of the persisted state are the
\* tabs the run visited, and every stored fingerprint is the fingerprint of a
\* tab that has an entry in that state
C23_TrackedSetEqualsSourceSet ==
  \A p \in Procs :
    Completed(p) =>
      /\ Range(getStoredState(props).keys) = run[p].activeTabIds
      /\ run[p].activeTabIds = DOMAIN doc
      /\ Fingerprinted \subseteq Range(getStoredState(props).keys)

\* ------------------------------------------------------------ SpecForce
\* the trigger starts runs one after another (invocation 1) while
\* forceExportAllTabs is called by hand once (invocation 2)
StepTrigger(p) ==
  \/ RunSteps(p)
  \/ TabSteps(p)
  \/ (Fetch(p) /\ budget' = budget)

\* line 387: the run inside forceExportAllTabs, once its lock check has passed
StepForced(p) ==
  /\ Forced(p)
  /\ Running(p)
  /\ StepTrigger(p)

NextForce == StepTrigger(1) \/ ForceExportAllTabs(2) \/ StepForced(2)

SpecForce == InitLock /\ [][NextForce]_vars

\* ------------------------------------------------------------------ C24
\* the step of forceExportAllTabs that deletes the properties (line 386)
DeletesAllProperties(p) == ~Forced(p) /\ Forced(p)'

\* C24: a forced run is never in the protected section together with the run
\* whose lock was live when forceExportAllTabs was called, and
\* forceExportAllTabs called during the protected section of a run removes
\* neither the state nor a fingerprint
C24_ForceRespectsLock ==
  /\ [](Forced(2) /\ InCritical(2) => ~InCritical(1))
  /\ [][(InCritical(1) /\ DeletesAllProperties(2)) =>
          (props'.state = props.state /\ props'.hashes = props.hashes)]_vars

====
